---- MODULE Spec2Model ----
(***************************************************************************)
(* Model of internal/alb/ls/listener.go: the listener controller of the    *)
(* ALB ingress controller.  One Reconcile call builds the desired listener *)
(* configuration, creates the listener or modifies it when it drifted, and *)
(* then hands the resulting listener to the rules controller.              *)
(*                                                                         *)
(* Go values are encoded so that nil and present never compare by accident:*)
(*   a nil pointer or nil slice is None  (the empty tuple),                *)
(*   a present value v is Some(v)        (the one-element tuple <<v>>),    *)
(*   a non-nil slice is Some(<<e1, ..., en>>).                             *)
(***************************************************************************)
EXTENDS Naturals, Sequences, FiniteSets

VARIABLES
    pc,        \* position of the Reconcile call: idle, listener, rules, done,
               \* (drift, driftDone for the evaluator-only specification)
    options,   \* the ReconcileOptions of the running call
    config,    \* the listenerConfig built for it
    instance,  \* the local variable `instance` of Reconcile
    err,       \* the error Reconcile returns (None: nil)
    calls,     \* the collaborator calls issued by this Reconcile, in order
    evals,     \* how many times the drift evaluator ran in this Reconcile
    needMod,   \* the last answer of LSInstanceNeedsModification
    cloud,     \* the provider's listeners: ListenerArn -> stored listener
    hist,      \* the Reconcile calls that returned before the running one
    other      \* the locals of a second, concurrent Reconcile call (or None)

vars == <<pc, options, config, instance, err, calls, evals, needMod, cloud,
          hist, other>>

None == << >>
Some(v) == <<v>>
Val(o) == o[1]

(***************************************************************************)
(* Values of the elbv2 types the controller handles.                       *)
(***************************************************************************)
ProtocolEnumHttp == "HTTP"
ProtocolEnumHttps == "HTTPS"
ActionTypeEnumForward == "forward"
ActionTypeEnumFixedResponse == "fixed-response"
ActionTypeEnumRedirect == "redirect"

\* elbv2.Action
Action(type, tgArn, detail) ==
    [Type |-> Some(type), TargetGroupArn |-> tgArn, Detail |-> detail]

\* elbv2.Certificate
Certificate(arn, isDefault) ==
    [CertificateArn |-> arn, IsDefault |-> isDefault]

\* extensions.IngressBackend
Backend(name, port) == [ServiceName |-> name, ServicePort |-> port]

(***************************************************************************)
(* Package action (internal/ingress/annotations/action).                   *)
(***************************************************************************)
UseAnnotation == "use-annotation"

\* action.Use: the reserved port name that asks for a custom action
Use(servicePort) == servicePort = UseAnnotation

\* action.Default404Backend: the built-in "no route configured" backend
Default404Backend == Backend("Default404", UseAnnotation)

\* the fixed 404 response the built-in backend maps to
Default404Action == Action(ActionTypeEnumFixedResponse, None, "404")

\* errors are values [msg, cause, ServiceName, ServicePort]; cause is None or
\* Some(inner error)
Error(msg, cause, name, port) ==
    [msg |-> msg, cause |-> cause, ServiceName |-> name, ServicePort |-> port]

\* fmt.Errorf("<msg> due to %v", inner)
Wrap(msg, inner) == Error(msg, Some(inner), "", "")

\* action.Config.GetAction: [action, err]
GetAction(annoActions, serviceName) ==
    IF serviceName = Default404Backend.ServiceName
    THEN [action |-> Some(Default404Action), err |-> None]
    ELSE IF serviceName \in DOMAIN annoActions
         THEN [action |-> Some(annoActions[serviceName]), err |-> None]
         ELSE [action |-> None,
               err |-> Some(Error("action annotation not found", None,
                                  serviceName, ""))]

(***************************************************************************)
(* util.DeepEqual on pointers and slices: nil equals only nil, present     *)
(* values are compared structurally, slices element by element in order.   *)
(***************************************************************************)
RECURSIVE SeqDeepEqual(_, _)
SeqDeepEqual(s, t) ==
    IF Len(s) # Len(t) THEN FALSE
    ELSE IF Len(s) = 0 THEN TRUE
    ELSE Head(s) = Head(t) /\ SeqDeepEqual(Tail(s), Tail(t))

DeepEqual(x, y) ==
    IF x = None \/ y = None THEN x = None /\ y = None
    ELSE Val(x) = Val(y)

SliceDeepEqual(x, y) ==
    IF x = None \/ y = None THEN x = None /\ y = None
    ELSE SeqDeepEqual(Val(x), Val(y))

(***************************************************************************)
(* The pure part of the controller: the desired configuration.             *)
(***************************************************************************)
\* type listenerConfig, as buildListenerConfig first fills it
listenerConfig(port, protocol) ==
    [Port |-> Some(port), Protocol |-> Some(protocol), SslPolicy |-> None,
     Certificates |-> None, DefaultActions |-> None]

\* buildDefaultActions gone wrong: a backend missing from the target-group map
\* is forwarded to an empty target group instead of failing
buildDefaultActions_Defaulted(o) ==
    LET defaultBackend == IF o.Ingress.Backend = None
                          THEN Default404Backend
                          ELSE Val(o.Ingress.Backend)
    IN  IF Use(defaultBackend.ServicePort)
        THEN LET r == GetAction(o.IngressAnnos.Action, defaultBackend.ServiceName)
             IN  IF r.err # None
                 THEN [actions |-> None, err |-> r.err]
                 ELSE [actions |-> Some(<<Val(r.action)>>), err |-> None]
        ELSE LET arn == IF defaultBackend \in DOMAIN o.TGGroup.TGByBackend
                        THEN o.TGGroup.TGByBackend[defaultBackend].Arn
                        ELSE ""
             IN  [actions |-> Some(<<Action(ActionTypeEnumForward, Some(arn), "")>>),
                  err |-> None]

\* buildDefaultActions gone wrong: no fallback backend, a request without
\* default backend gets no action at all
buildDefaultActions_NoFallback(o) ==
    IF o.Ingress.Backend = None
    THEN [actions |-> Some(<< >>), err |-> None]
    ELSE LET defaultBackend == Val(o.Ingress.Backend)
         IN  IF Use(defaultBackend.ServicePort)
             THEN LET r == GetAction(o.IngressAnnos.Action,
                                     defaultBackend.ServiceName)
                  IN  IF r.err # None
                      THEN [actions |-> None, err |-> r.err]
                      ELSE [actions |-> Some(<<Val(r.action)>>), err |-> None]
             ELSE IF defaultBackend \notin DOMAIN o.TGGroup.TGByBackend
                  THEN [actions |-> None,
                        err |-> Some(Error("unable to find targetGroup for backend",
                                           None, defaultBackend.ServiceName,
                                           defaultBackend.ServicePort))]
                  ELSE [actions |->
                            Some(<<Action(ActionTypeEnumForward,
                                          Some(o.TGGroup.TGByBackend[defaultBackend].Arn),
                                          "")>>),
                        err |-> None]

\* buildDefaultActions gone wrong: the target-group map is consulted first,
\* the custom action only for a backend the map does not hold
buildDefaultActions_MapFirst(o) ==
    LET defaultBackend == IF o.Ingress.Backend = None
                          THEN Default404Backend
                          ELSE Val(o.Ingress.Backend)
    IN  IF defaultBackend \in DOMAIN o.TGGroup.TGByBackend
        THEN [actions |->
                  Some(<<Action(ActionTypeEnumForward,
                                Some(o.TGGroup.TGByBackend[defaultBackend].Arn),
                                "")>>),
              err |-> None]
        ELSE IF Use(defaultBackend.ServicePort)
        THEN LET r == GetAction(o.IngressAnnos.Action, defaultBackend.ServiceName)
             IN  IF r.err # None
                 THEN [actions |-> None, err |-> r.err]
                 ELSE [actions |-> Some(<<Val(r.action)>>), err |-> None]
        ELSE [actions |-> None,
              err |-> Some(Error("unable to find targetGroup for backend",
                                 None, defaultBackend.ServiceName,
                                 defaultBackend.ServicePort))]

\* buildDefaultActions: [actions, err]
buildDefaultActions(o) ==
    LET defaultBackend == IF o.Ingress.Backend = None
                          THEN Default404Backend
                          ELSE Val(o.Ingress.Backend)
    IN  IF Use(defaultBackend.ServicePort)
        THEN LET r == GetAction(o.IngressAnnos.Action, defaultBackend.ServiceName)
             IN  IF r.err # None
                 THEN [actions |-> None, err |-> r.err]
                 ELSE [actions |-> Some(<<Val(r.action)>>), err |-> None]
        ELSE IF defaultBackend \notin DOMAIN o.TGGroup.TGByBackend
             THEN [actions |-> None,
                   err |-> Some(Error("unable to find targetGroup for backend",
                                      None, defaultBackend.ServiceName,
                                      defaultBackend.ServicePort))]
             ELSE LET targetGroup == o.TGGroup.TGByBackend[defaultBackend]
                  IN  [actions |-> Some(<<Action(ActionTypeEnumForward,
                                                  Some(targetGroup.Arn), "")>>),
                       err |-> None]

\* buildListenerConfig gone wrong: the TLS fields are filled from the
\* annotations whatever the scheme
buildListenerConfig_AlwaysTLS(o) ==
    LET c0 == listenerConfig(o.Port.Port, o.Port.Scheme)
        c1 == IF o.IngressAnnos.Listener.CertificateArn # None
              THEN [c0 EXCEPT !.Certificates =
                       Some(<<Certificate(o.IngressAnnos.Listener.CertificateArn,
                                          Some(TRUE))>>)]
              ELSE c0
        c2 == IF o.IngressAnnos.Listener.SslPolicy # None
              THEN [c1 EXCEPT !.SslPolicy = o.IngressAnnos.Listener.SslPolicy]
              ELSE c1
        r  == buildDefaultActions(o)
    IN  IF r.err # None
        THEN [config |-> c2, err |-> r.err]
        ELSE [config |-> [c2 EXCEPT !.DefaultActions = r.actions], err |-> None]

\* buildListenerConfig gone wrong: the certificate is not marked default
buildListenerConfig_NotDefault(o) ==
    LET c0 == listenerConfig(o.Port.Port, o.Port.Scheme)
        c1 == IF o.Port.Scheme = ProtocolEnumHttps
                 /\ o.IngressAnnos.Listener.CertificateArn # None
              THEN [c0 EXCEPT !.Certificates =
                       Some(<<Certificate(o.IngressAnnos.Listener.CertificateArn,
                                          None)>>)]
              ELSE c0
        c2 == IF o.Port.Scheme = ProtocolEnumHttps
                 /\ o.IngressAnnos.Listener.SslPolicy # None
              THEN [c1 EXCEPT !.SslPolicy = o.IngressAnnos.Listener.SslPolicy]
              ELSE c1
        r  == buildDefaultActions(o)
    IN  IF r.err # None
        THEN [config |-> c2, err |-> r.err]
        ELSE [config |-> [c2 EXCEPT !.DefaultActions = r.actions], err |-> None]

\* buildListenerConfig: [config, err]
buildListenerConfig(o) ==
    LET c0 == listenerConfig(o.Port.Port, o.Port.Scheme)
        c1 == IF o.Port.Scheme = ProtocolEnumHttps
                 /\ o.IngressAnnos.Listener.CertificateArn # None
              THEN [c0 EXCEPT !.Certificates =
                       Some(<<Certificate(o.IngressAnnos.Listener.CertificateArn,
                                          Some(TRUE))>>)]
              ELSE c0
        c2 == IF o.Port.Scheme = ProtocolEnumHttps
                 /\ o.IngressAnnos.Listener.SslPolicy # None
              THEN [c1 EXCEPT !.SslPolicy = o.IngressAnnos.Listener.SslPolicy]
              ELSE c1
        r  == buildDefaultActions(o)
    IN  IF r.err # None
        THEN [config |-> c2, err |-> r.err]
        ELSE [config |-> [c2 EXCEPT !.DefaultActions = r.actions], err |-> None]

\* LSInstanceNeedsModification gone wrong: the certificate check compares the
\* listener's certificates with the configuration's default actions
LSInstanceNeedsModification_WrongField(inst, cfg) ==
    \/ ~DeepEqual(inst.Port, cfg.Port)
    \/ ~DeepEqual(inst.Protocol, cfg.Protocol)
    \/ ~SliceDeepEqual(inst.Certificates, cfg.DefaultActions)
    \/ ~DeepEqual(inst.SslPolicy, cfg.SslPolicy)
    \/ ~SliceDeepEqual(inst.DefaultActions, cfg.DefaultActions)

\* LSInstanceNeedsModification gone wrong: certificates compared as a set,
\* whatever their order
LSInstanceNeedsModification_Unordered(inst, cfg) ==
    \/ ~DeepEqual(inst.Port, cfg.Port)
    \/ ~DeepEqual(inst.Protocol, cfg.Protocol)
    \/ IF inst.Certificates = None \/ cfg.Certificates = None
       THEN inst.Certificates # cfg.Certificates
       ELSE {Val(inst.Certificates)[i] : i \in DOMAIN Val(inst.Certificates)}
              # {Val(cfg.Certificates)[i] : i \in DOMAIN Val(cfg.Certificates)}
    \/ ~DeepEqual(inst.SslPolicy, cfg.SslPolicy)
    \/ ~SliceDeepEqual(inst.DefaultActions, cfg.DefaultActions)

\* LSInstanceNeedsModification: the flag after each of the five checks
LSInstanceNeedsModification(inst, cfg) ==
    LET n0 == FALSE
        n1 == IF ~DeepEqual(inst.Port, cfg.Port) THEN TRUE ELSE n0
        n2 == IF ~DeepEqual(inst.Protocol, cfg.Protocol) THEN TRUE ELSE n1
        n3 == IF ~SliceDeepEqual(inst.Certificates, cfg.Certificates)
              THEN TRUE ELSE n2
        n4 == IF ~DeepEqual(inst.SslPolicy, cfg.SslPolicy) THEN TRUE ELSE n3
        n5 == IF ~SliceDeepEqual(inst.DefaultActions, cfg.DefaultActions)
              THEN TRUE ELSE n4
    IN  n5

\* CreateListenerInput gone wrong: the SSL policy is left out
CreateListenerInput_NoSslPolicy(lbArn, cfg) ==
    [LoadBalancerArn |-> Some(lbArn),
     Port            |-> cfg.Port,
     Protocol        |-> cfg.Protocol,
     Certificates    |-> cfg.Certificates,
     SslPolicy       |-> None,
     DefaultActions  |-> cfg.DefaultActions]

\* elbv2.CreateListenerInput as newLSInstance fills it
CreateListenerInput(lbArn, cfg) ==
    [LoadBalancerArn |-> Some(lbArn),
     Port            |-> cfg.Port,
     Protocol        |-> cfg.Protocol,
     Certificates    |-> cfg.Certificates,
     SslPolicy       |-> cfg.SslPolicy,
     DefaultActions  |-> cfg.DefaultActions]

\* ModifyListenerInput gone wrong: only the fields that differ are sent
ModifyListenerInput_OnlyChanged(inst, cfg) ==
    [ListenerArn    |-> inst.ListenerArn,
     Port           |-> IF inst.Port = cfg.Port THEN None ELSE cfg.Port,
     Protocol       |-> IF inst.Protocol = cfg.Protocol THEN None ELSE cfg.Protocol,
     Certificates   |-> IF inst.Certificates = cfg.Certificates
                        THEN None ELSE cfg.Certificates,
     SslPolicy      |-> IF inst.SslPolicy = cfg.SslPolicy THEN None ELSE cfg.SslPolicy,
     DefaultActions |-> IF inst.DefaultActions = cfg.DefaultActions
                        THEN None ELSE cfg.DefaultActions]

\* ModifyListenerInput gone wrong: the load balancer's identifier is sent as
\* the listener's
ModifyListenerInput_LBArn(inst, cfg) ==
    [ListenerArn    |-> inst.LoadBalancerArn,
     Port           |-> cfg.Port,
     Protocol       |-> cfg.Protocol,
     Certificates   |-> cfg.Certificates,
     SslPolicy      |-> cfg.SslPolicy,
     DefaultActions |-> cfg.DefaultActions]

\* elbv2.ModifyListenerInput as reconcileLSInstance fills it
ModifyListenerInput(inst, cfg) ==
    [ListenerArn    |-> inst.ListenerArn,
     Port           |-> cfg.Port,
     Protocol       |-> cfg.Protocol,
     Certificates   |-> cfg.Certificates,
     SslPolicy      |-> cfg.SslPolicy,
     DefaultActions |-> cfg.DefaultActions]

\* RulesReconcileInput gone wrong: the rules controller gets options.Instance,
\* not the listener the listener stage resulted in
RulesReconcileInput_Stale(inst, o) ==
    [instance     |-> o.Instance,
     Ingress      |-> o.Ingress,
     IngressAnnos |-> o.IngressAnnos,
     TGGroup      |-> o.TGGroup]

\* the arguments of rulesController.Reconcile
RulesReconcileInput(inst, o) ==
    [instance     |-> inst,
     Ingress      |-> o.Ingress,
     IngressAnnos |-> o.IngressAnnos,
     TGGroup      |-> o.TGGroup]

\* one collaborator call: what was called, with what, and whether it succeeded
Call(op, input, ok) == [op |-> op, input |-> input, ok |-> ok]

(***************************************************************************)
(* The provider (aws.CloudAPI).  A stored listener is the configuration of *)
(* the call plus the identifiers; an HTTPS listener stored without an SSL  *)
(* policy gets the provider's default policy.                              *)
(***************************************************************************)
ListenerArns == {"ls-1", "ls-2"}
ProviderDefaultSslPolicy == "ELBSecurityPolicy-2016-08"

Listener(arn, lbArn, port, protocol, certs, ssl, actions) ==
    [ListenerArn |-> arn, LoadBalancerArn |-> lbArn, Port |-> port,
     Protocol |-> protocol, Certificates |-> certs, SslPolicy |-> ssl,
     DefaultActions |-> actions]

ProviderSslPolicy(protocol, ssl) ==
    IF protocol = Some(ProtocolEnumHttps) /\ ssl = None
    THEN Some(ProviderDefaultSslPolicy)
    ELSE ssl

\* the listener the provider stores and returns for a create call
CreatedListener(arn, in) ==
    Listener(Some(arn), in.LoadBalancerArn, in.Port, in.Protocol,
             in.Certificates, ProviderSslPolicy(in.Protocol, in.SslPolicy),
             in.DefaultActions)

\* the listener the provider stores and returns for a modify call
ModifiedListener(old, in) ==
    Listener(old.ListenerArn, old.LoadBalancerArn, in.Port, in.Protocol,
             in.Certificates, ProviderSslPolicy(in.Protocol, in.SslPolicy),
             in.DefaultActions)

\* the error a collaborator call returns when it fails
CloudError(op) == Error(op, None, "", "")

(***************************************************************************)
(* The requests and the observed listeners the model draws from.           *)
(***************************************************************************)
LBArns == {"lb-1", "lb-2"}
Ports == {80, 8080}
Schemes == {ProtocolEnumHttp, ProtocolEnumHttps}
AnnoCertificateArns == {None, Some("cert-1")}
AnnoSslPolicies == {None, Some("ELBSecurityPolicy-TLS-1-2-2017-01")}

ForwardBackend == Backend("svcA", "8080")
CustomBackend == Backend("svcB", UseAnnotation)
IngressBackends == {None, Some(ForwardBackend), Some(CustomBackend)}

RedirectAction == Action(ActionTypeEnumRedirect, None, "https-443")
ForwardAction(tg) == Action(ActionTypeEnumForward, Some(tg), "")

\* the action annotations: service name -> custom action
AnnoActions == { [n \in S |-> RedirectAction] : S \in SUBSET {"svcB"} }

TGArnOf(b) == IF b = ForwardBackend THEN "tg-1" ELSE "tg-2"

\* tg.TargetGroupGroup.TGByBackend: backend -> target group
TGGroups ==
    { [TGByBackend |-> [b \in S |-> [Arn |-> TGArnOf(b)]]] :
        S \in SUBSET {ForwardBackend, CustomBackend} }

\* the listeners a caller may have observed at the provider
ObservedListeners ==
    { Listener(Some("ls-1"), Some("lb-1"), Some(p), Some(s), c, ssl, Some(<<a>>)) :
        p \in Ports, s \in Schemes,
        c \in {None, Some(<<Certificate(Some("cert-1"), Some(TRUE))>>),
                     Some(<<Certificate(Some("cert-2"), Some(TRUE))>>)},
        ssl \in AnnoSslPolicies,
        a \in {ForwardAction("tg-1"), Default404Action, RedirectAction} }

EmptyCloud == [a \in ListenerArns |-> None]

\* type ReconcileOptions; the instance, when given, is a listener of the provider
ReconcileOptions(stored) ==
    [LBArn : LBArns,
     Ingress : [Backend : IngressBackends],
     IngressAnnos : [Listener : [CertificateArn : AnnoCertificateArns,
                                 SslPolicy : AnnoSslPolicies],
                     Action : AnnoActions],
     Port : [Port : Ports, Scheme : Schemes],
     TGGroup : TGGroups,
     Instance : {None} \cup {stored[a] : a \in {x \in ListenerArns : stored[x] # None}}]

(***************************************************************************)
(* Reconcile, one action per stage; the stages end at the collaborator     *)
(* calls, whose outcome the controller does not decide.                    *)
(***************************************************************************)
Init ==
    /\ pc = "idle"
    /\ options = None
    /\ config = None
    /\ instance = None
    /\ err = None
    /\ calls = << >>
    /\ evals = 0
    /\ needMod = FALSE
    /\ hist = << >>
    /\ other = None
    /\ cloud \in {EmptyCloud} \cup
                 {[EmptyCloud EXCEPT !["ls-1"] = Some(l)] : l \in ObservedListeners}

\* ReconcileBuild gone wrong: a build error is dropped and the call goes on
\* with the configuration built so far
ReconcileBuild_Continue(o) ==
    /\ LET b == buildListenerConfig(o)
       IN  /\ options' = o
           /\ config' = b.config
           /\ err' = None
           /\ instance' = o.Instance
           /\ pc' = "listener"
    /\ UNCHANGED <<calls, evals, needMod, cloud, hist, other>>

\* Reconcile, lines 58-64: build the configuration, pick up options.Instance
ReconcileBuild(o) ==
    /\ LET b == buildListenerConfig(o)
       IN  /\ options' = o
           /\ config' = b.config
           /\ IF b.err # None
              THEN /\ err' = Some(Wrap("failed to build listener config", Val(b.err)))
                   /\ instance' = None
                   /\ pc' = "done"
              ELSE /\ err' = None
                   /\ instance' = o.Instance
                   /\ pc' = "listener"
    /\ UNCHANGED <<calls, evals, needMod, cloud, hist, other>>

\* NewLSInstance gone wrong: a failed create call is tried once more
NewLSInstance_Retry ==
    /\ pc = "listener"
    /\ instance = None
    /\ LET in == CreateListenerInput(options.LBArn, config)
       IN  \/ \E arn \in {a \in ListenerArns : cloud[a] = None} :
                /\ calls' = Append(calls, Call("CreateListener", in, TRUE))
                /\ cloud' = [cloud EXCEPT ![arn] = Some(CreatedListener(arn, in))]
                /\ instance' = Some(CreatedListener(arn, in))
                /\ err' = None
                /\ pc' = "rules"
           \/ /\ calls' = calls \o <<Call("CreateListener", in, FALSE),
                                     Call("CreateListener", in, FALSE)>>
              /\ cloud' = cloud
              /\ instance' = None
              /\ err' = Some(Wrap("failed to create listener",
                                  CloudError("CreateListener")))
              /\ pc' = "done"
    /\ UNCHANGED <<options, config, evals, needMod, hist, other>>

\* Reconcile, lines 65-68, with newLSInstance
NewLSInstance ==
    /\ pc = "listener"
    /\ instance = None
    /\ LET in == CreateListenerInput(options.LBArn, config)
       IN  /\ \/ \E arn \in {a \in ListenerArns : cloud[a] = None} :
                    /\ calls' = Append(calls, Call("CreateListener", in, TRUE))
                    /\ cloud' = [cloud EXCEPT ![arn] = Some(CreatedListener(arn, in))]
                    /\ instance' = Some(CreatedListener(arn, in))
                    /\ err' = None
                    /\ pc' = "rules"
              \/ /\ calls' = Append(calls, Call("CreateListener", in, FALSE))
                 /\ cloud' = cloud
                 /\ instance' = None
                 /\ err' = Some(Wrap("failed to create listener",
                                     CloudError("CreateListener")))
                 /\ pc' = "done"
    /\ UNCHANGED <<options, config, evals, needMod, hist, other>>

\* ReconcileLSInstance gone wrong: a failed modify call is swallowed and the
\* rules stage runs on the old listener
ReconcileLSInstance_Swallow ==
    /\ pc = "listener"
    /\ instance # None
    /\ evals' = evals + 1
    /\ needMod' = LSInstanceNeedsModification(Val(instance), config)
    /\ IF needMod'
       THEN LET in  == ModifyListenerInput(Val(instance), config)
                arn == Val(in.ListenerArn)
            IN  \/ /\ arn \in ListenerArns
                   /\ cloud[arn] # None
                   /\ calls' = Append(calls, Call("ModifyListener", in, TRUE))
                   /\ cloud' = [cloud EXCEPT ![arn] =
                                    Some(ModifiedListener(Val(cloud[arn]), in))]
                   /\ instance' = cloud'[arn]
                \/ /\ calls' = Append(calls, Call("ModifyListener", in, FALSE))
                   /\ cloud' = cloud
                   /\ instance' = instance
       ELSE UNCHANGED <<calls, cloud, instance>>
    /\ err' = None
    /\ pc' = "rules"
    /\ UNCHANGED <<options, config, hist, other>>

\* ReconcileLSInstance gone wrong: drift is decided on the listener the
\* provider holds now, not on the instance the call was handed
ReconcileLSInstance_Fresh ==
    /\ pc = "listener"
    /\ instance # None
    /\ evals' = evals + 1
    /\ needMod' = LSInstanceNeedsModification(
                      Val(cloud[Val(Val(instance).ListenerArn)]), config)
    /\ IF needMod'
       THEN LET in  == ModifyListenerInput(Val(instance), config)
                arn == Val(in.ListenerArn)
            IN  /\ \/ /\ arn \in ListenerArns
                      /\ cloud[arn] # None
                      /\ calls' = Append(calls, Call("ModifyListener", in, TRUE))
                      /\ cloud' = [cloud EXCEPT ![arn] =
                                       Some(ModifiedListener(Val(cloud[arn]), in))]
                      /\ instance' = cloud'[arn]
                      /\ err' = None
                      /\ pc' = "rules"
                   \/ /\ calls' = Append(calls, Call("ModifyListener", in, FALSE))
                      /\ cloud' = cloud
                      /\ instance' = instance
                      /\ err' = Some(Wrap("failed to reconcile listener",
                                          CloudError("ModifyListener")))
                      /\ pc' = "done"
       ELSE /\ pc' = "rules"
            /\ UNCHANGED <<calls, cloud, instance, err>>
    /\ UNCHANGED <<options, config, hist, other>>

\* Reconcile, lines 69-72, with reconcileLSInstance
ReconcileLSInstance ==
    /\ pc = "listener"
    /\ instance # None
    /\ evals' = evals + 1
    /\ needMod' = LSInstanceNeedsModification(Val(instance), config)
    /\ IF needMod'
       THEN LET in  == ModifyListenerInput(Val(instance), config)
                arn == Val(in.ListenerArn)
            IN  /\ \/ /\ arn \in ListenerArns
                      /\ cloud[arn] # None
                      /\ calls' = Append(calls, Call("ModifyListener", in, TRUE))
                      /\ cloud' = [cloud EXCEPT ![arn] =
                                       Some(ModifiedListener(Val(cloud[arn]), in))]
                      /\ instance' = cloud'[arn]
                      /\ err' = None
                      /\ pc' = "rules"
                   \/ /\ calls' = Append(calls, Call("ModifyListener", in, FALSE))
                      /\ cloud' = cloud
                      /\ instance' = instance
                      /\ err' = Some(Wrap("failed to reconcile listener",
                                          CloudError("ModifyListener")))
                      /\ pc' = "done"
       ELSE /\ pc' = "rules"
            /\ UNCHANGED <<calls, cloud, instance, err>>
    /\ UNCHANGED <<options, config, hist, other>>

\* RulesReconcile gone wrong: when the rules controller fails, the listener
\* the call created or modified is taken back from the provider
RulesReconcile_Rollback ==
    /\ pc = "rules"
    /\ LET in == RulesReconcileInput(instance, options)
       IN  \/ /\ calls' = Append(calls, Call("RulesReconcile", in, TRUE))
              /\ err' = None
              /\ cloud' = cloud
           \/ /\ calls' = Append(calls, Call("RulesReconcile", in, FALSE))
              /\ err' = Some(Wrap("failed to reconcile rules",
                                  CloudError("RulesReconcile")))
              /\ cloud' = IF calls # << >>
                          THEN [cloud EXCEPT ![Val(Val(instance).ListenerArn)] =
                                    IF options.Instance = None THEN None
                                    ELSE options.Instance]
                          ELSE cloud
    /\ pc' = "done"
    /\ UNCHANGED <<options, config, instance, evals, needMod, hist, other>>

\* Reconcile, lines 74-77: the rules controller
RulesReconcile ==
    /\ pc = "rules"
    /\ LET in == RulesReconcileInput(instance, options)
       IN  \/ /\ calls' = Append(calls, Call("RulesReconcile", in, TRUE))
              /\ err' = None
           \/ /\ calls' = Append(calls, Call("RulesReconcile", in, FALSE))
              /\ err' = Some(Wrap("failed to reconcile rules",
                                  CloudError("RulesReconcile")))
    /\ pc' = "done"
    /\ UNCHANGED <<options, config, instance, evals, needMod, cloud, hist, other>>

\* a caller invokes Reconcile with some request
Reconcile ==
    /\ pc = "idle"
    /\ \E o \in ReconcileOptions(cloud) : ReconcileBuild(o)

Next ==
    \/ Reconcile
    \/ NewLSInstance
    \/ ReconcileLSInstance
    \/ RulesReconcile

Spec == Init /\ [][Next]_vars

(***************************************************************************)
(* The drift evaluator alone, on every pair of an observed listener and a  *)
(* target configuration, also those no request builds.                     *)
(***************************************************************************)
DriftCertificates ==
    {None, Some(<< >>),
     Some(<<Certificate(Some("cert-1"), Some(TRUE))>>),
     Some(<<Certificate(Some("cert-1"), None)>>),
     Some(<<Certificate(Some("cert-1"), Some(TRUE)),
            Certificate(Some("cert-2"), Some(FALSE))>>),
     Some(<<Certificate(Some("cert-2"), Some(FALSE)),
            Certificate(Some("cert-1"), Some(TRUE))>>)}

DriftActions ==
    {None,
     Some(<<ForwardAction("tg-1")>>),
     Some(<<RedirectAction, ForwardAction("tg-1")>>),
     Some(<<ForwardAction("tg-1"), RedirectAction>>)}

DriftPorts == {None} \cup {Some(p) : p \in Ports}
DriftProtocols == {Some(s) : s \in Schemes}

DriftConfigs ==
    [Port : DriftPorts, Protocol : DriftProtocols, SslPolicy : AnnoSslPolicies,
     Certificates : DriftCertificates, DefaultActions : DriftActions]

DriftListeners ==
    { Listener(Some("ls-1"), Some("lb-1"), c.Port, c.Protocol, c.Certificates,
               c.SslPolicy, c.DefaultActions) : c \in DriftConfigs }

InitDrift ==
    /\ pc = "drift"
    /\ options = None
    /\ config \in DriftConfigs
    /\ instance \in {Some(l) : l \in DriftListeners}
    /\ err = None
    /\ calls = << >>
    /\ evals = 0
    /\ needMod = FALSE
    /\ hist = << >>
    /\ other = None
    /\ cloud = EmptyCloud

EvalDrift ==
    /\ pc = "drift"
    /\ needMod' = LSInstanceNeedsModification(Val(instance), config)
    /\ evals' = evals + 1
    /\ pc' = "driftDone"
    /\ UNCHANGED <<options, config, instance, err, calls, cloud, hist, other>>

NextDrift == EvalDrift

SpecDrift == InitDrift /\ [][NextDrift]_vars

(***************************************************************************)
(* Vocabulary of the properties.                                           *)
(***************************************************************************)
CallsOf(op) == {i \in DOMAIN calls : calls[i].op = op}
NumCalls(op) == Cardinality(CallsOf(op))
ListenerCalls == CallsOf("CreateListener") \cup CallsOf("ModifyListener")

\* the five compared fields agree, by plain structural equality
SameFive(l, c) ==
    /\ l.Port = c.Port
    /\ l.Protocol = c.Protocol
    /\ l.Certificates = c.Certificates
    /\ l.SslPolicy = c.SslPolicy
    /\ l.DefaultActions = c.DefaultActions

\* the error kinds of the specification, read off the returned error
ErrKind(e) ==
    IF e = None THEN "none"
    ELSE IF Val(e).msg = "failed to build listener config"
         THEN IF Val(Val(e).cause).msg = "unable to find targetGroup for backend"
              THEN "UnresolvedBackend"
              ELSE "AnnotationResolutionFailure"
    ELSE IF Val(e).msg = "failed to create listener" THEN "CreateFailed"
    ELSE IF Val(e).msg = "failed to reconcile listener" THEN "UpdateFailed"
    ELSE IF Val(e).msg = "failed to reconcile rules" THEN "RuleReconciliationFailed"
    ELSE "other"

Started == pc \in {"listener", "rules", "done"}
BuildFailed == ErrKind(err) \in {"UnresolvedBackend", "AnnotationResolutionFailure"}
\* the listener stage of the running call is over
PastListener == pc \in {"rules", "done"} /\ ~BuildFailed

(***************************************************************************)
(* C1 - Idempotence: when the supplied listener already equals the built   *)
(* configuration in port, protocol, certificates, SSL policy and default   *)
(* actions, Reconcile issues no ModifyListener and no CreateListener call  *)
(* and carries the supplied listener forward unchanged, to the rules       *)
(* controller too, and the provider's listener is left as it was.          *)
(***************************************************************************)
C1_Idempotence ==
    (PastListener /\ options.Instance # None
        /\ SameFive(Val(options.Instance), config))
    => /\ NumCalls("ModifyListener") = 0
       /\ NumCalls("CreateListener") = 0
       /\ instance = options.Instance
       /\ \A i \in CallsOf("RulesReconcile") :
              calls[i].input.instance = options.Instance
       /\ cloud[Val(Val(options.Instance).ListenerArn)] = options.Instance

C1_Witness ==
    /\ pc = "done"
    /\ err = None
    /\ options.Instance # None
    /\ SameFive(Val(options.Instance), config)
    /\ config.Protocol = Some(ProtocolEnumHttps)
    /\ config.Certificates # None
    /\ Len(calls) = 1
    /\ calls[1].op = "RulesReconcile"

(***************************************************************************)
(* C2 - Convergence: when the supplied listener differs from the built     *)
(* configuration in at least one of the five fields, Reconcile issues      *)
(* exactly one ModifyListener call, which carries the supplied listener's  *)
(* identifier and all five fields of the built configuration.              *)
(***************************************************************************)
C2_Convergence ==
    (PastListener /\ options.Instance # None
        /\ ~SameFive(Val(options.Instance), config))
    => /\ NumCalls("ModifyListener") = 1
       /\ NumCalls("CreateListener") = 0
       /\ \A i \in CallsOf("ModifyListener") :
              /\ calls[i].input.ListenerArn = Val(options.Instance).ListenerArn
              /\ calls[i].input.Port = config.Port
              /\ calls[i].input.Protocol = config.Protocol
              /\ calls[i].input.Certificates = config.Certificates
              /\ calls[i].input.SslPolicy = config.SslPolicy
              /\ calls[i].input.DefaultActions = config.DefaultActions

\* only the port differs (8080 observed, 80 wanted), and the call still
\* carries the HTTPS certificate and policy
C2_Witness ==
    /\ pc = "done"
    /\ options.Instance # None
    /\ Val(options.Instance).Port = Some(8080)
    /\ config.Port = Some(80)
    /\ Val(options.Instance).Protocol = config.Protocol
    /\ Val(options.Instance).Certificates = config.Certificates
    /\ Val(options.Instance).SslPolicy = config.SslPolicy
    /\ Val(options.Instance).DefaultActions = config.DefaultActions
    /\ config.Certificates # None
    /\ config.SslPolicy # None
    /\ NumCalls("ModifyListener") = 1
    /\ calls[1].input.Certificates = config.Certificates

(***************************************************************************)
(* C3 - Creation path: without an existing listener (and with a built      *)
(* configuration) Reconcile issues exactly one CreateListener call, with   *)
(* the request's load balancer and the five built fields, never runs the   *)
(* drift evaluator and never calls ModifyListener; with an existing        *)
(* listener it never creates, whatever the provider holds.                 *)
(***************************************************************************)
C3_CreationPath ==
    /\ (PastListener /\ options.Instance = None)
       => /\ NumCalls("CreateListener") = 1
          /\ NumCalls("ModifyListener") = 0
          /\ evals = 0
          /\ calls[1].op = "CreateListener"
          /\ calls[1].input.LoadBalancerArn = Some(options.LBArn)
          /\ calls[1].input.Port = config.Port
          /\ calls[1].input.Protocol = config.Protocol
          /\ calls[1].input.Certificates = config.Certificates
          /\ calls[1].input.SslPolicy = config.SslPolicy
          /\ calls[1].input.DefaultActions = config.DefaultActions
    /\ (PastListener /\ options.Instance # None)
       => /\ NumCalls("CreateListener") = 0
          /\ evals = 1

\* a create for load balancer lb-2 while the provider already holds ls-1
C3_Witness ==
    /\ pc = "done"
    /\ options.Instance = None
    /\ options.LBArn = "lb-2"
    /\ cloud["ls-1"] # None
    /\ cloud["ls-2"] # None
    /\ Len(calls) = 2
    /\ calls[1].op = "CreateListener"
    /\ calls[1].input.LoadBalancerArn = Some("lb-2")
    /\ calls[1].input.Certificates # None
    /\ calls[1].input.SslPolicy # None

(***************************************************************************)
(* C4 - Backend resolution failure is fatal.  As first stated: a request   *)
(* whose default backend is not in the target-group map always returns     *)
(* UnresolvedBackend.                                                      *)
(***************************************************************************)
C4_Original ==
    (Started /\ options.Ingress.Backend # None
        /\ Val(options.Ingress.Backend) \notin DOMAIN options.TGGroup.TGByBackend)
    => ErrKind(err) = "UnresolvedBackend"

(***************************************************************************)
(* C4, amended: a request whose default backend does not ask for a custom  *)
(* action and is not in the target-group map returns UnresolvedBackend,    *)
(* naming the backend's service name and port, builds no action list and   *)
(* issues no call; and every Forward action ever built refers to the       *)
(* map's target group for the request's backend.                           *)
(***************************************************************************)
C4_UnresolvedBackendFatal ==
    Started =>
      LET b == options.Ingress.Backend
          m == options.TGGroup.TGByBackend
      IN  /\ (b # None /\ ~Use(Val(b).ServicePort) /\ Val(b) \notin DOMAIN m)
             => /\ pc = "done"
                /\ ErrKind(err) = "UnresolvedBackend"
                /\ Val(Val(err).cause).ServiceName = Val(b).ServiceName
                /\ Val(Val(err).cause).ServicePort = Val(b).ServicePort
                /\ config.DefaultActions = None
                /\ calls = << >>
          /\ config.DefaultActions # None
             => \A i \in DOMAIN Val(config.DefaultActions) :
                  LET a == Val(config.DefaultActions)[i]
                  IN  a.Type = Some(ActionTypeEnumForward)
                      => /\ b # None
                         /\ Val(b) \in DOMAIN m
                         /\ a.TargetGroupArn = Some(m[Val(b)].Arn)

C4_Witness ==
    /\ pc = "done"
    /\ ErrKind(err) = "UnresolvedBackend"
    /\ options.Ingress.Backend = Some(ForwardBackend)
    /\ DOMAIN options.TGGroup.TGByBackend = {}
    /\ options.Instance # None
    /\ calls = << >>

(***************************************************************************)
(* C5 - Action non-emptiness: every built configuration has a non-empty    *)
(* default-action list; a request without default backend builds the       *)
(* fallback fixed 404 response; no CreateListener or ModifyListener call   *)
(* carries an empty or missing action list.                                *)
(***************************************************************************)
C5_ActionNonEmpty ==
    Started =>
      /\ ~BuildFailed
         => /\ config.DefaultActions # None
            /\ Len(Val(config.DefaultActions)) >= 1
      /\ options.Ingress.Backend = None
         => /\ ~BuildFailed
            /\ config.DefaultActions = Some(<<Default404Action>>)
      /\ \A i \in ListenerCalls :
            /\ calls[i].input.DefaultActions # None
            /\ Len(Val(calls[i].input.DefaultActions)) >= 1

C5_Witness ==
    /\ pc = "done"
    /\ options.Ingress.Backend = None
    /\ Len(calls) = 2
    /\ calls[1].op = "CreateListener"
    /\ calls[1].input.DefaultActions = Some(<<Default404Action>>)

(***************************************************************************)
(* C6 - No rollback: when the create or modify call succeeded and the      *)
(* rules controller then failed, Reconcile returns the rules error, the    *)
(* rules call is the last call it issued, and the provider still holds the *)
(* listener as created or modified.                                        *)
(***************************************************************************)
C6_NoRollback ==
    (pc = "done" /\ ListenerCalls # {} /\ \E i \in CallsOf("RulesReconcile") : ~calls[i].ok)
    => /\ ErrKind(err) = "RuleReconciliationFailed"
       /\ Len(calls) = 2
       /\ calls[1].op \in {"CreateListener", "ModifyListener"}
       /\ calls[1].ok
       /\ calls[2].op = "RulesReconcile"
       /\ instance # None
       /\ cloud[Val(Val(instance).ListenerArn)] = instance
       /\ Val(instance).Port = config.Port
       /\ Val(instance).Protocol = config.Protocol
       /\ Val(instance).Certificates = config.Certificates
       /\ Val(instance).DefaultActions = config.DefaultActions
       /\ config.SslPolicy # None => Val(instance).SslPolicy = config.SslPolicy

C6_Witness ==
    /\ pc = "done"
    /\ ErrKind(err) = "RuleReconciliationFailed"
    /\ Len(calls) = 2
    /\ calls[1].op = "ModifyListener"
    /\ cloud["ls-1"] # options.Instance
    /\ cloud["ls-1"] = instance

(***************************************************************************)
(* C7 - Call budget: one Reconcile issues at most one CreateListener or    *)
(* ModifyListener call in total (never both, never a retry) and at most    *)
(* one rules-controller call.                                              *)
(***************************************************************************)
C7_CallBudget ==
    /\ NumCalls("CreateListener") + NumCalls("ModifyListener") <= 1
    /\ NumCalls("RulesReconcile") <= 1
    /\ Len(calls) <= 2

\* a failed create that was not retried
C7_Witness ==
    /\ pc = "done"
    /\ ErrKind(err) = "CreateFailed"
    /\ Len(calls) = 1
    /\ calls[1].op = "CreateListener"
    /\ ~calls[1].ok

(***************************************************************************)
(* C8 - Rule-stage ordering: the rules controller is called exactly once   *)
(* when the build and the listener stage succeeded and not at all          *)
(* otherwise (never after a failed create or modify); its call is the last *)
(* one, after the create or modify call, and it gets the resulting         *)
(* listener (the provider's created or modified listener, or the supplied  *)
(* one when nothing drifted) with the request's ingress, annotations and   *)
(* target groups.                                                          *)
(***************************************************************************)
C8_RuleStageOrdering ==
    /\ pc \in {"idle", "listener", "rules"} => NumCalls("RulesReconcile") = 0
    /\ pc = "done"
       => /\ NumCalls("RulesReconcile") =
                 (IF BuildFailed \/ \E j \in ListenerCalls : ~calls[j].ok
                  THEN 0 ELSE 1)
          /\ ErrKind(err) \in {"CreateFailed", "UpdateFailed"}
                 => NumCalls("RulesReconcile") = 0
          /\ \A i \in CallsOf("RulesReconcile") :
                LET in == calls[i].input
                IN  /\ i = Len(calls)
                    /\ \A j \in ListenerCalls : j < i /\ calls[j].ok
                    /\ in.Ingress = options.Ingress
                    /\ in.IngressAnnos = options.IngressAnnos
                    /\ in.TGGroup = options.TGGroup
                    /\ in.instance # None
                    /\ IF ListenerCalls = {}
                       THEN in.instance = options.Instance
                       ELSE /\ cloud[Val(Val(in.instance).ListenerArn)] = in.instance
                            /\ Val(in.instance).Port = config.Port
                            /\ Val(in.instance).DefaultActions = config.DefaultActions
                            /\ options.Instance # None
                               => Val(in.instance).ListenerArn
                                      = Val(options.Instance).ListenerArn

\* the rules controller gets the listener the provider just created
C8_Witness ==
    /\ pc = "done"
    /\ Len(calls) = 2
    /\ calls[1].op = "CreateListener"
    /\ calls[2].op = "RulesReconcile"
    /\ options.Instance = None
    /\ calls[2].input.instance = cloud["ls-1"]
    /\ cloud["ls-2"] = None

(***************************************************************************)
(* C9 - Drift evaluator: LSInstanceNeedsModification answers true exactly  *)
(* when one of port, protocol, certificate list, SSL policy, default       *)
(* actions is not structurally equal (order included, nil and present      *)
(* distinguished) between the listener and the configuration.              *)
(***************************************************************************)
C9_DriftEvaluator ==
    pc = "driftDone" => (needMod <=> ~SameFive(Val(instance), config))

\* the same two certificates in another order, all else equal: drift
C9_Witness ==
    /\ pc = "driftDone"
    /\ needMod
    /\ Val(instance).Port = config.Port
    /\ Val(instance).Protocol = config.Protocol
    /\ Val(instance).SslPolicy = config.SslPolicy
    /\ Val(instance).DefaultActions = config.DefaultActions
    /\ config.Certificates # None
    /\ Val(instance).Certificates # None
    /\ Len(Val(config.Certificates)) = 2
    /\ Len(Val(Val(instance).Certificates)) = 2
    /\ Val(instance).Certificates # config.Certificates
    /\ {Val(config.Certificates)[i] : i \in 1..2}
         = {Val(Val(instance).Certificates)[i] : i \in 1..2}

\* what the build stage must answer for the request, read off the request
BuildOutcome(o) ==
    LET b == IF o.Ingress.Backend = None THEN Default404Backend
             ELSE Val(o.Ingress.Backend)
    IN  IF b.ServicePort = UseAnnotation
        THEN IF b.ServiceName = "Default404"
                \/ b.ServiceName \in DOMAIN o.IngressAnnos.Action
             THEN "none" ELSE "AnnotationResolutionFailure"
        ELSE IF b \in DOMAIN o.TGGroup.TGByBackend
             THEN "none" ELSE "UnresolvedBackend"

ExpectedKind ==
    IF BuildOutcome(options) # "none" THEN BuildOutcome(options)
    ELSE IF \E i \in ListenerCalls : ~calls[i].ok
         THEN IF options.Instance = None THEN "CreateFailed" ELSE "UpdateFailed"
    ELSE IF \E i \in CallsOf("RulesReconcile") : ~calls[i].ok
         THEN "RuleReconciliationFailed"
    ELSE "none"

(***************************************************************************)
(* C10 - Error propagation by stage: Reconcile returns nil exactly when    *)
(* the build, the listener stage and the rules stage all succeeded, and    *)
(* otherwise the error of the first failing stage: the build's             *)
(* (AnnotationResolutionFailure or UnresolvedBackend), then CreateFailed   *)
(* without instance or UpdateFailed with one, then                         *)
(* RuleReconciliationFailed.                                               *)
(***************************************************************************)
C10_ErrorPropagation ==
    pc = "done"
    => /\ ErrKind(err) = ExpectedKind
       /\ err = None <=> /\ BuildOutcome(options) = "none"
                         /\ \A i \in DOMAIN calls : calls[i].ok
                         /\ NumCalls("RulesReconcile") = 1
       /\ BuildOutcome(options) # "none" => calls = << >>

C10_Witness ==
    /\ pc = "done"
    /\ ErrKind(err) = "UpdateFailed"
    /\ options.Instance # None
    /\ Len(calls) = 1
    /\ calls[1].op = "ModifyListener"
    /\ ~calls[1].ok

(***************************************************************************)
(* C11 - TLS fields only for HTTPS: for a request whose scheme is not      *)
(* HTTPS the built configuration, and so every CreateListener or           *)
(* ModifyListener call, has no certificate list and no SSL policy, even    *)
(* when the annotations give both; port and protocol are always the        *)
(* request's.                                                              *)
(***************************************************************************)
C11_TLSOnlyForHTTPS ==
    Started =>
      /\ config.Port = Some(options.Port.Port)
      /\ config.Protocol = Some(options.Port.Scheme)
      /\ \A i \in ListenerCalls :
            /\ calls[i].input.Port = Some(options.Port.Port)
            /\ calls[i].input.Protocol = Some(options.Port.Scheme)
      /\ options.Port.Scheme # ProtocolEnumHttps
         => /\ config.Certificates = None
            /\ config.SslPolicy = None
            /\ \A i \in ListenerCalls :
                  /\ calls[i].input.Certificates = None
                  /\ calls[i].input.SslPolicy = None

\* an HTTP request with both TLS annotations modifies an HTTPS listener
C11_Witness ==
    /\ pc = "done"
    /\ options.Port.Scheme = ProtocolEnumHttp
    /\ options.IngressAnnos.Listener.CertificateArn # None
    /\ options.IngressAnnos.Listener.SslPolicy # None
    /\ options.Instance # None
    /\ Val(options.Instance).Certificates # None
    /\ Len(calls) = 2
    /\ calls[1].op = "ModifyListener"
    /\ calls[1].input.Certificates = None
    /\ calls[1].input.SslPolicy = None

(***************************************************************************)
(* C12 - HTTPS certificate shape: for an HTTPS request the built           *)
(* configuration has no certificates exactly when the annotations give no  *)
(* certificate, and otherwise exactly one certificate, the annotation's,   *)
(* marked default; its SSL policy is the annotation's, or none.            *)
(***************************************************************************)
C12_HTTPSCertificateShape ==
    (Started /\ options.Port.Scheme = ProtocolEnumHttps)
    => LET a == options.IngressAnnos.Listener
       IN  /\ config.Certificates = None <=> a.CertificateArn = None
           /\ config.Certificates # None
              => /\ Len(Val(config.Certificates)) = 1
                 /\ Val(config.Certificates)[1].CertificateArn = a.CertificateArn
                 /\ Val(config.Certificates)[1].IsDefault = Some(TRUE)
           /\ config.SslPolicy = a.SslPolicy

\* HTTPS with a certificate and no SSL policy annotation
C12_Witness ==
    /\ pc = "done"
    /\ options.Port.Scheme = ProtocolEnumHttps
    /\ options.IngressAnnos.Listener.CertificateArn = Some("cert-1")
    /\ options.IngressAnnos.Listener.SslPolicy = None
    /\ config.Certificates = Some(<<Certificate(Some("cert-1"), Some(TRUE))>>)
    /\ config.SslPolicy = None
    /\ Len(calls) = 2
    /\ calls[1].op = "CreateListener"

(***************************************************************************)
(* C13 - The build stage is free of side effects and gates the rest: the   *)
(* build step issues no call and leaves the provider as it is, and when    *)
(* the build fails Reconcile ends there, with no CreateListener, no        *)
(* ModifyListener, no drift evaluation and no rules call, with or without  *)
(* an existing listener.                                                   *)
(***************************************************************************)
C13_BuildGatesEverything ==
    /\ []((Started /\ BuildOutcome(options) # "none")
            => /\ pc = "done"
               /\ BuildFailed
               /\ calls = << >>
               /\ evals = 0)
    /\ [][pc = "idle" => (cloud' = cloud /\ calls' = calls /\ evals' = evals)]_vars
    /\ [][(Started /\ BuildOutcome(options) # "none") => cloud' = cloud]_vars

\* a failed build with an existing listener, which stays as it was
C13_Witness ==
    /\ pc = "done"
    /\ ErrKind(err) = "AnnotationResolutionFailure"
    /\ options.Instance # None
    /\ ~SameFive(Val(options.Instance), config)
    /\ cloud["ls-1"] = options.Instance
    /\ calls = << >>
    /\ evals = 0

(***************************************************************************)
(* C14 - Custom-action precedence: when the default backend (or the        *)
(* fallback put in its place) has the reserved custom-action port, the     *)
(* action list is the single action the annotations give for its service   *)
(* name, whether or not the target-group map holds the backend, and a      *)
(* failed lookup is AnnotationResolutionFailure, never a Forward action    *)
(* nor UnresolvedBackend; for any other backend a built list is exactly    *)
(* one Forward action to the map's target group for it.                    *)
(***************************************************************************)
C14_CustomActionPrecedence ==
    Started =>
      LET b == IF options.Ingress.Backend = None THEN Default404Backend
               ELSE Val(options.Ingress.Backend)
          m == options.TGGroup.TGByBackend
          a == options.IngressAnnos.Action
      IN  IF b.ServicePort = UseAnnotation
          THEN IF b.ServiceName = "Default404"
               THEN /\ ~BuildFailed
                    /\ config.DefaultActions = Some(<<Default404Action>>)
               ELSE IF b.ServiceName \in DOMAIN a
               THEN /\ ~BuildFailed
                    /\ config.DefaultActions = Some(<<a[b.ServiceName]>>)
               ELSE /\ ErrKind(err) = "AnnotationResolutionFailure"
                    /\ config.DefaultActions = None
          ELSE ~BuildFailed
               => /\ b \in DOMAIN m
                  /\ config.DefaultActions = Some(<<ForwardAction(m[b].Arn)>>)

\* a custom-action backend that the target-group map also holds
C14_Witness ==
    /\ pc = "done"
    /\ options.Ingress.Backend = Some(CustomBackend)
    /\ CustomBackend \in DOMAIN options.TGGroup.TGByBackend
    /\ config.DefaultActions = Some(<<RedirectAction>>)
    /\ Len(calls) = 2
    /\ calls[1].input.DefaultActions = Some(<<RedirectAction>>)

(***************************************************************************)
(* Repeated reconciliation: a caller invokes Reconcile again and again,    *)
(* each time with the listener the previous call resulted in.              *)
(***************************************************************************)
\* how many times Reconcile is invoked again after the first call
MaxRounds == 2

\* a request without its instance
Request(o) == [o EXCEPT !.Instance = None]

\* the listeners the provider may hold before the first call
RoundListeners ==
    { Listener(Some("ls-1"), Some("lb-1"), Some(8080), Some(ProtocolEnumHttp),
               None, None, Some(<<ForwardAction("tg-1")>>)) }
    \cup
    { Listener(Some("ls-1"), Some("lb-1"), Some(8080), Some(ProtocolEnumHttps),
               Some(<<Certificate(Some("cert-1"), Some(TRUE))>>), ssl,
               Some(<<ForwardAction("tg-1")>>)) :
        ssl \in (AnnoSslPolicies \ {None}) \cup {Some(ProviderDefaultSslPolicy)} }

\* the requests of the first call: every one of them builds
RoundOptions(stored) ==
    [LBArn : {"lb-1"},
     Ingress : [Backend : {None, Some(ForwardBackend)}],
     IngressAnnos : [Listener : [CertificateArn : AnnoCertificateArns,
                                 SslPolicy : AnnoSslPolicies],
                     Action : {[n \in {} |-> RedirectAction]}],
     Port : [Port : Ports, Scheme : Schemes],
     TGGroup : {[TGByBackend |-> [b \in {ForwardBackend} |-> [Arn |-> TGArnOf(b)]]]},
     Instance : {None} \cup {stored[a] : a \in {x \in ListenerArns : stored[x] # None}}]

\* the requests of a later call: the same one, or another port or scheme
NextRequests(o) ==
    {o} \cup {[o EXCEPT !.Port.Port = p] : p \in Ports}
        \cup {[o EXCEPT !.Port.Scheme = sch] : sch \in Schemes}

InitRounds ==
    /\ pc = "idle"
    /\ options = None
    /\ config = None
    /\ instance = None
    /\ err = None
    /\ calls = << >>
    /\ evals = 0
    /\ needMod = FALSE
    /\ hist = << >>
    /\ other = None
    /\ cloud \in {EmptyCloud} \cup
                 {[EmptyCloud EXCEPT !["ls-1"] = Some(l)] : l \in RoundListeners}

\* the first call
ReconcileFirst ==
    /\ pc = "idle"
    /\ \E o \in RoundOptions(cloud) : ReconcileBuild(o)

\* Reconcile invoked again (lines 58-64) once the previous call returned with
\* its listener stage done; the call's instance is the resulting listener
ReconcileAgain ==
    /\ pc = "done"
    /\ ErrKind(err) \in {"none", "RuleReconciliationFailed"}
    /\ instance # None
    /\ Len(hist) < MaxRounds
    /\ \E r \in NextRequests(Request(options)) :
          LET o == [r EXCEPT !.Instance = instance]
              b == buildListenerConfig(o)
          IN  /\ options' = o
              /\ config' = b.config
              /\ IF b.err # None
                 THEN /\ err' = Some(Wrap("failed to build listener config",
                                          Val(b.err)))
                      /\ instance' = None
                      /\ pc' = "done"
                 ELSE /\ err' = None
                      /\ instance' = o.Instance
                      /\ pc' = "listener"
    /\ hist' = Append(hist, [request  |-> Request(options),
                             instance |-> instance,
                             calls    |-> calls])
    /\ calls' = << >>
    /\ evals' = 0
    /\ needMod' = FALSE
    /\ UNCHANGED <<cloud, other>>

NextRounds ==
    \/ ReconcileFirst
    \/ ReconcileAgain
    \/ NewLSInstance
    \/ ReconcileLSInstance
    \/ RulesReconcile

SpecRounds == InitRounds /\ [][NextRounds]_vars

\* the running call is a later one, and every call so far had its request
SameRequestAgain ==
    /\ Len(hist) >= 1
    /\ Started
    /\ \A i \in DOMAIN hist : hist[i].request = Request(options)

(***************************************************************************)
(* C15 - Stable fixpoint: once a Reconcile call got through its listener   *)
(* stage, calling Reconcile again, any number of times, with the same      *)
(* request and the resulting listener issues no CreateListener and no      *)
(* ModifyListener call, also for an HTTPS request without SSL-policy       *)
(* annotation, whose listener the provider stores with its default policy. *)
(***************************************************************************)
C15_StableFixpoint ==
    SameRequestAgain
    => /\ NumCalls("CreateListener") = 0
       /\ NumCalls("ModifyListener") = 0

(***************************************************************************)
(* C16 - Listener identity: over reconciliations that each get the         *)
(* previous resulting listener, every ModifyListener call carries the      *)
(* identifier the listener had after the first call (the one it got at     *)
(* creation), no later call issues a CreateListener call, and the rules    *)
(* controller is handed a listener with that identifier.                   *)
(***************************************************************************)
\* calls cs of a call after the first keep to the listener id
KeepsIdentity(cs, id) ==
    \A i \in DOMAIN cs :
        /\ cs[i].op # "CreateListener"
        /\ cs[i].op = "ModifyListener" => cs[i].input.ListenerArn = id
        /\ cs[i].op = "RulesReconcile"
           => /\ cs[i].input.instance # None
              /\ Val(cs[i].input.instance).ListenerArn = id

C16_ListenerIdentity ==
    (Len(hist) >= 1 /\ Started)
    => LET id == Val(hist[1].instance).ListenerArn
       IN  /\ \A i \in DOMAIN hist[1].calls :
                 /\ hist[1].calls[i].op = "CreateListener"
                    => hist[1].request.LBArn = Val(hist[1].calls[i].input.LoadBalancerArn)
                 /\ hist[1].calls[i].op = "ModifyListener"
                    => hist[1].calls[i].input.ListenerArn = id
           /\ \A k \in DOMAIN hist : k > 1 => KeepsIdentity(hist[k].calls, id)
           /\ KeepsIdentity(calls, id)
           /\ options.Instance # None
           /\ Val(options.Instance).ListenerArn = id
           /\ instance # None => Val(instance).ListenerArn = id
           /\ cloud[Val(id)] # None
           /\ Val(cloud[Val(id)]).ListenerArn = id

\* created as ls-2 in the first call, modified as ls-2 in the third
C16_Witness ==
    /\ Len(hist) = 2
    /\ pc = "done"
    /\ hist[1].calls[1].op = "CreateListener"
    /\ Val(hist[1].instance).ListenerArn = Some("ls-2")
    /\ Len(calls) = 2
    /\ calls[1].op = "ModifyListener"
    /\ calls[1].ok
    /\ calls[1].input.ListenerArn = Some("ls-2")
    /\ Val(calls[2].input.instance).ListenerArn = Some("ls-2")

(***************************************************************************)
(* Two concurrent Reconcile calls on one listener.  The variables pc ...   *)
(* needMod are the locals of the call that is running; `other` holds the   *)
(* locals of the call that is not, and Switch passes control between them  *)
(* at the points where a call waits for a collaborator.                    *)
(***************************************************************************)
Locals(p, o, c, i, e, cs, ev, nm) ==
    [pc |-> p, options |-> o, config |-> c, instance |-> i, err |-> e,
     calls |-> cs, evals |-> ev, needMod |-> nm]

IdleLocals == Locals("idle", None, None, None, None, << >>, 0, FALSE)

\* the listener both calls are about
ConcListeners ==
    { Listener(Some("ls-1"), Some("lb-1"), Some(p), Some(ProtocolEnumHttp),
               None, None, Some(<<a>>)) :
        p \in Ports, a \in {ForwardAction("tg-1"), Default404Action} }

\* the requests of the two calls; the instance is the provider's listener as
\* the caller sees it when it calls
ConcOptions(stored) ==
    [LBArn : {"lb-1"},
     Ingress : [Backend : {None, Some(ForwardBackend)}],
     IngressAnnos : [Listener : [CertificateArn : {Some("cert-1")},
                                 SslPolicy : AnnoSslPolicies \ {None}],
                     Action : {[n \in {} |-> RedirectAction]}],
     Port : [Port : Ports, Scheme : Schemes],
     TGGroup : {[TGByBackend |-> [b \in {ForwardBackend} |-> [Arn |-> TGArnOf(b)]]]},
     Instance : {stored["ls-1"]}]

InitConc ==
    /\ pc = "idle"
    /\ options = None
    /\ config = None
    /\ instance = None
    /\ err = None
    /\ calls = << >>
    /\ evals = 0
    /\ needMod = FALSE
    /\ hist = << >>
    /\ other = Some(IdleLocals)
    /\ cloud \in {[EmptyCloud EXCEPT !["ls-1"] = Some(l)] : l \in ConcListeners}

\* a caller invokes Reconcile for the listener
ReconcileConc ==
    /\ pc = "idle"
    /\ \E o \in ConcOptions(cloud) : ReconcileBuild(o)

\* the other call runs on
Switch ==
    /\ other # None
    /\ other' = Some(Locals(pc, options, config, instance, err, calls, evals,
                            needMod))
    /\ pc' = Val(other).pc
    /\ options' = Val(other).options
    /\ config' = Val(other).config
    /\ instance' = Val(other).instance
    /\ err' = Val(other).err
    /\ calls' = Val(other).calls
    /\ evals' = Val(other).evals
    /\ needMod' = Val(other).needMod
    /\ UNCHANGED <<cloud, hist>>

NextConc ==
    \/ ReconcileConc
    \/ Switch
    \/ ReconcileLSInstance
    \/ RulesReconcile

SpecConc == InitConc /\ [][NextConc]_vars

\* the provider holds listener l as a call with configuration c leaves it
StoredAs(l, c) ==
    /\ l.Port = c.Port
    /\ l.Protocol = c.Protocol
    /\ l.Certificates = c.Certificates
    /\ l.SslPolicy = ProviderSslPolicy(c.Protocol, c.SslPolicy)
    /\ l.DefaultActions = c.DefaultActions

\* a call with these locals decided drift on the instance it was handed
DecidedOnSnapshot(l) ==
    l.evals = 1
    => /\ l.needMod = ~SameFive(Val(l.options.Instance), l.config)
       /\ (\E i \in DOMAIN l.calls : l.calls[i].op = "ModifyListener")
              <=> l.needMod

(***************************************************************************)
(* C17 - No mutual exclusion: of two concurrent Reconcile calls on one     *)
(* listener each decides drift on the listener it was handed, whatever     *)
(* the provider holds by then; the provider's listener changes only by a   *)
(* successful ModifyListener call and then is that call's configuration    *)
(* (the last write wins); and both calls can return nil with the           *)
(* provider's listener differing from the configuration of one of them.    *)
(***************************************************************************)
C17_NoMutualExclusion ==
    /\ [](/\ DecidedOnSnapshot(Locals(pc, options, config, instance, err,
                                      calls, evals, needMod))
          /\ DecidedOnSnapshot(Val(other)))
    /\ [][cloud' # cloud
            => /\ pc = "listener"
               /\ pc' = "rules"
               /\ calls' = Append(calls, Call("ModifyListener",
                                              ModifyListenerInput(Val(instance),
                                                                  config), TRUE))
               /\ cloud'["ls-2"] = cloud["ls-2"]
               /\ StoredAs(Val(cloud'["ls-1"]), config)]_vars

\* both calls returned nil; the running one found its stale instance as
\* wanted and did nothing, while the other one's modify call is what the
\* provider holds
C17_Witness ==
    /\ pc = "done"
    /\ err = None
    /\ Val(other).pc = "done"
    /\ Val(other).err = None
    /\ evals = 1
    /\ ~needMod
    /\ Len(calls) = 1
    /\ Len(Val(other).calls) = 2
    /\ Val(other).calls[1].op = "ModifyListener"
    /\ Val(other).options.Instance = options.Instance
    /\ Request(Val(other).options) # Request(options)
    /\ cloud["ls-1"] # options.Instance
    /\ ~StoredAs(Val(cloud["ls-1"]), config)
    /\ StoredAs(Val(cloud["ls-1"]), Val(other).config)

====
